---------------------------- MODULE Spec2Model ----------------------------
(***************************************************************************)
(* A model of the OpenGL version classifier (GLParser), its lazy batch     *)
(* driver (parse_gl_versions) and the runtime recognizer (parse_runtime)   *)
(* of utils.py.                                                            *)
(*                                                                         *)
(* A Python str is a sequence of one-character strings.  None is the       *)
(* record [some |-> FALSE]; a present optional value v is Some(v).         *)
(* A call's outcome is Return(value) or Raise(exception, message).         *)
(***************************************************************************)
EXTENDS Integers, Sequences, FiniteSets, TLC

VARIABLES
    input,      \* the raw value handed to GLParser.parse
    result,     \* the outcome of GLParser.parse(input), Pending before the call
    entries,    \* gl_version_strings: the raw values handed to parse_gl_versions
    gen,        \* the generator's frame: "none", "created", "suspended", "closed"
    idx,        \* how many entries enumerate() has handed out
    calls,      \* the indices of entries on which parser.parse has been called
    pulled,     \* the outcome of each next() on the generator, in order
    runtime,    \* the argument of parse_runtime
    rt_result   \* the outcome of parse_runtime(runtime), Pending before the call

vars == <<input, result, entries, gen, idx, calls, pulled, runtime, rt_result>>

----------------------------------------------------------------------------
(* Values *)

None == [some |-> FALSE]
Some(v) == [some |-> TRUE, val |-> v]

Pending == [kind |-> "pending"]
Return(v) == [kind |-> "return", val |-> v]
Raise(e, m) == [kind |-> "raise", exc |-> e, msg |-> m]
StopIteration == [kind |-> "stop"]

\* A raw input value: isinstance(s, int), isinstance(s, float), or a str.
\* A float is held in tenths (45 is 4.5): the floats whose str() is
\* <integer part>.<one digit>.
IntVal(n) == [kind |-> "int", n |-> n]
FloatVal(t) == [kind |-> "float", t |-> t]
StrVal(s) == [kind |-> "str", s |-> s]

OpenGLDescriptor(v, d, dv) == [version |-> v, driver |-> d, driver_version |-> dv]

Runtime(p, v) == [provider |-> p, version |-> v]

----------------------------------------------------------------------------
(* Strings *)

Digits == {"0", "1", "2", "3", "4", "5", "6", "7", "8", "9"}

IsDigit(c) == c \in Digits

DigitChar(d) == CASE d = 0 -> "0" [] d = 1 -> "1" [] d = 2 -> "2" [] d = 3 -> "3"
                  [] d = 4 -> "4" [] d = 5 -> "5" [] d = 6 -> "6" [] d = 7 -> "7"
                  [] d = 8 -> "8" [] d = 9 -> "9"

RECURSIVE NatStr(_)
NatStr(n) == IF n < 10 THEN <<DigitChar(n)>>
             ELSE NatStr(n \div 10) \o <<DigitChar(n % 10)>>

\* IntStr with the sign lost.
IntStrUnsigned(n) == IF n < 0 THEN NatStr(-n) ELSE NatStr(n)

\* '{}'.format(n) of an int: its decimal digits, "-" first when negative.
IntStr(n) == IF n < 0 THEN <<"-">> \o NatStr(-n) ELSE NatStr(n)

\* str(f) of the float t/10.
FloatStr(t) ==
    LET a == IF t < 0 THEN -t ELSE t
    IN  (IF t < 0 THEN <<"-">> ELSE <<>>)
            \o NatStr(a \div 10) \o <<".">> \o <<DigitChar(a % 10)>>

\* sub in s
Contains(sub, s) ==
    \E i \in 1..(Len(s) - Len(sub) + 1) : SubSeq(s, i, i + Len(sub) - 1) = sub

RECURSIVE Concat(_)
Concat(ss) == IF ss = <<>> THEN <<>> ELSE Head(ss) \o Concat(Tail(ss))

----------------------------------------------------------------------------
(* Regular expressions (re.compile, Pattern.search, Match.group).          *)
(* A pattern is a sequence of atoms; MatchAt is the backtracking matcher,  *)
(* greedy as Python's: \d+ tries its longest run first, (...)? tries the   *)
(* group before its absence.                                               *)

Lit(c) == [t |-> "lit", c |-> c, n |-> 0, sub |-> <<>>]
Lits(cs) == [k \in 1..Len(cs) |-> Lit(cs[k])]
DigitsPlus == [t |-> "digits", c |-> "", n |-> 0, sub |-> <<>>]
DigitsN(n) == [t |-> "digitsN", c |-> "", n |-> n, sub |-> <<>>]
Opt(sub) == [t |-> "opt", c |-> "", n |-> 0, sub |-> sub]
GroupOpen == [t |-> "open", c |-> "", n |-> 0, sub |-> <<>>]
GroupClose == [t |-> "close", c |-> "", n |-> 0, sub |-> <<>>]

NoMatch == [ok |-> FALSE, start |-> 0, end |-> 0, gs |-> 0, ge |-> 0]

\* The number of digits in s from position i on.
RECURSIVE DigitRun(_, _)
DigitRun(s, i) == IF i <= Len(s) /\ IsDigit(s[i]) THEN 1 + DigitRun(s, i + 1) ELSE 0

RECURSIVE MatchAt(_, _, _, _, _)
RECURSIVE TryDigits(_, _, _, _, _, _)
\* The match of pattern re against s from position i (end: the position after
\* the match; gs, ge: the named group's span), or NoMatch.
MatchAt(re, s, i, gs, ge) ==
    IF re = <<>> THEN [ok |-> TRUE, start |-> 0, end |-> i, gs |-> gs, ge |-> ge]
    ELSE LET a == Head(re)
             rest == Tail(re)
         IN  CASE a.t = "lit" ->
                    IF i <= Len(s) /\ s[i] = a.c
                    THEN MatchAt(rest, s, i + 1, gs, ge) ELSE NoMatch
               [] a.t = "digits" -> TryDigits(rest, s, i, DigitRun(s, i), gs, ge)
               [] a.t = "digitsN" ->
                    IF DigitRun(s, i) >= a.n
                    THEN MatchAt(rest, s, i + a.n, gs, ge) ELSE NoMatch
               [] a.t = "opt" ->
                    LET m == MatchAt(a.sub \o rest, s, i, gs, ge)
                    IN  IF m.ok THEN m ELSE MatchAt(rest, s, i, gs, ge)
               [] a.t = "open" -> MatchAt(rest, s, i, i, ge)
               [] a.t = "close" -> MatchAt(rest, s, i, gs, i)

TryDigits(rest, s, i, n, gs, ge) ==
    IF n < 1 THEN NoMatch
    ELSE LET m == MatchAt(rest, s, i + n, gs, ge)
         IN  IF m.ok THEN m ELSE TryDigits(rest, s, i, n - 1, gs, ge)

RECURSIVE SearchFrom(_, _, _)
SearchFrom(re, s, i) ==
    IF i > Len(s) + 1 THEN NoMatch
    ELSE LET m == MatchAt(re, s, i, 0, 0)
         IN  IF m.ok THEN [m EXCEPT !.start = i] ELSE SearchFrom(re, s, i + 1)

\* Pattern.search: the leftmost match.
search(re, s) == SearchFrom(re, s, 1)

\* Match.group(0) and Match.group('version').
group0(s, m) == SubSeq(s, m.start, m.end - 1)
group_version(s, m) == SubSeq(s, m.gs, m.ge - 1)

Dot == Lit(".")

\* opengl_version_re without its optional PATCH group.
opengl_version_re_no_patch == <<DigitsPlus, Dot, DigitsPlus>>

opengl_version_re == <<DigitsPlus, Dot, DigitsPlus, Opt(<<Dot, DigitsPlus>>)>>
compat_version_re == <<DigitsPlus, Dot, DigitsPlus, Dot, DigitsPlus, Dot, DigitsPlus>>
mesa_version_re == <<DigitsPlus, Dot, DigitsPlus, Dot, DigitsPlus>>
intel_version_re ==
    Lits(<<"I", "N", "T", "E", "L", "-">>)
        \o <<GroupOpen, DigitsPlus, Dot, DigitsPlus, Dot, DigitsPlus, GroupClose>>
\* nvidia_version_re with \d+ where it has \d{3}.
nvidia_version_re_any_major ==
    Lits(<<"N", "V", "I", "D", "I", "A", " ">>)
        \o <<GroupOpen, DigitsPlus, Dot, DigitsPlus, GroupClose>>

nvidia_version_re ==
    Lits(<<"N", "V", "I", "D", "I", "A", " ">>)
        \o <<GroupOpen, DigitsN(3), Dot, DigitsPlus, GroupClose>>
build_version_re ==
    Lits(<<"B", "u", "i", "l", "d", " ">>)
        \o <<GroupOpen, DigitsPlus, Dot, DigitsPlus, Dot, DigitsPlus, Dot, DigitsPlus,
             GroupClose>>

----------------------------------------------------------------------------
(* GLParser *)

KwCompat == <<"C", "o", "m", "p", "a", "t", "i", "b", "i", "l", "i", "t", "y", " ",
              "P", "r", "o", "f", "i", "l", "e", " ",
              "C", "o", "n", "t", "e", "x", "t">>
KwMesa == <<"M", "e", "s", "a">>
KwNvidia == <<"N", "V", "I", "D", "I", "A">>
KwIntel == <<"I", "N", "T", "E", "L">>
KwBuild == <<"B", "u", "i", "l", "d">>

\* _opengl_version with Pattern.match, which matches at the start of s only,
\* where it has Pattern.search.
_opengl_version_match(s) ==
    LET match == [MatchAt(opengl_version_re, s, 1, 0, 0) EXCEPT !.start = 1]
    IN  IF match.ok THEN Some(group0(s, match)) ELSE None

_opengl_version(s) ==
    LET match == search(opengl_version_re, s)
    IN  IF match.ok THEN Some(group0(s, match)) ELSE None

parse_build_version(s) ==
    LET match == search(build_version_re, s)
        driver_version == IF match.ok THEN Some(group_version(s, match)) ELSE None
    IN  OpenGLDescriptor(_opengl_version(s), Some("build"), driver_version)

parse_nvidia(s) ==
    LET match == search(nvidia_version_re, s)
        nvidia_version == IF match.ok THEN Some(group_version(s, match)) ELSE None
    IN  OpenGLDescriptor(_opengl_version(s), Some("nvidia"), nvidia_version)

parse_intel(s) ==
    LET match == search(intel_version_re, s)
        intel_version == IF match.ok THEN Some(group_version(s, match)) ELSE None
    IN  OpenGLDescriptor(_opengl_version(s), Some("intel"), intel_version)

parse_mesa(s) ==
    LET match == search(mesa_version_re, s)
        driver_version == IF match.ok THEN Some(group0(s, match)) ELSE None
    IN  OpenGLDescriptor(_opengl_version(s), Some("mesa"), driver_version)

parse_compatability_profile_context(s) ==
    LET match == search(compat_version_re, s)
        driver_version == IF match.ok THEN Some(group0(s, match)) ELSE None
    IN  OpenGLDescriptor(_opengl_version(s), Some("compat"), driver_version)

UnimplementedFor == <<"U", "n", "i", "m", "p", "l", "e", "m", "e", "n", "t", "e", "d",
                      " ", "f", "o", "r", " ">>

\* parse with the INTEL test before the NVIDIA test.
parse_intel_before_nvidia(r) ==
    IF r.kind = "int"
    THEN Return(OpenGLDescriptor(Some(IntStr(r.n) \o <<".", "0", ".", "0">>), None, None))
    ELSE IF r.kind = "float"
    THEN Return(OpenGLDescriptor(Some(FloatStr(r.t)), None, None))
    ELSE LET s == r.s
         IN  IF Contains(KwCompat, s) THEN Return(parse_compatability_profile_context(s))
             ELSE IF Contains(KwMesa, s) THEN Return(parse_mesa(s))
             ELSE IF Contains(KwIntel, s) THEN Return(parse_intel(s))
             ELSE IF Contains(KwNvidia, s) THEN Return(parse_nvidia(s))
             ELSE IF Contains(KwBuild, s) THEN Return(parse_build_version(s))
             ELSE LET gl_version == _opengl_version(s)
                  IN  IF gl_version.some
                      THEN Return(OpenGLDescriptor(gl_version, Some("generic"), None))
                      ELSE Raise("NotImplementedError", UnimplementedFor \o s)

\* parse whose last branch returns a generic Descriptor without looking at
\* gl_version.
parse_generic_without_raise(r) ==
    IF r.kind = "int"
    THEN Return(OpenGLDescriptor(Some(IntStr(r.n) \o <<".", "0", ".", "0">>), None, None))
    ELSE IF r.kind = "float"
    THEN Return(OpenGLDescriptor(Some(FloatStr(r.t)), None, None))
    ELSE LET s == r.s
         IN  IF Contains(KwCompat, s) THEN Return(parse_compatability_profile_context(s))
             ELSE IF Contains(KwMesa, s) THEN Return(parse_mesa(s))
             ELSE IF Contains(KwNvidia, s) THEN Return(parse_nvidia(s))
             ELSE IF Contains(KwIntel, s) THEN Return(parse_intel(s))
             ELSE IF Contains(KwBuild, s) THEN Return(parse_build_version(s))
             ELSE Return(OpenGLDescriptor(_opengl_version(s), Some("generic"), None))

\* GLParser.parse of a raw value r.
parse(r) ==
    IF r.kind = "int"
    THEN Return(OpenGLDescriptor(Some(IntStr(r.n) \o <<".", "0", ".", "0">>), None, None))
    ELSE IF r.kind = "float"
    THEN Return(OpenGLDescriptor(Some(FloatStr(r.t)), None, None))
    ELSE LET s == r.s
         IN  IF Contains(KwCompat, s) THEN Return(parse_compatability_profile_context(s))
             ELSE IF Contains(KwMesa, s) THEN Return(parse_mesa(s))
             ELSE IF Contains(KwNvidia, s) THEN Return(parse_nvidia(s))
             ELSE IF Contains(KwIntel, s) THEN Return(parse_intel(s))
             ELSE IF Contains(KwBuild, s) THEN Return(parse_build_version(s))
             ELSE LET gl_version == _opengl_version(s)
                  IN  IF gl_version.some
                      THEN Return(OpenGLDescriptor(gl_version, Some("generic"), None))
                      ELSE Raise("NotImplementedError", UnimplementedFor \o s)

----------------------------------------------------------------------------
(* The inputs.  A string is the concatenation of at most MaxFrags fragments *)
(* of Fragments: the five family keywords, a differently-cased word, the    *)
(* separators the driver-version patterns name, a dot, a run of digits, a   *)
(* dot with a digit, and versions of two, three and four components.        *)

MaxFrags == 3
MaxInt == 12
MaxTenths == 45

Fragments ==
    { KwCompat, KwMesa, KwNvidia, KwIntel, KwBuild,
      <<"I", "n", "t", "e", "l">>,
      <<" ">>, <<"-">>, <<".">>,
      <<"4", "7", "0">>, <<".", "1">>,
      <<"4", "7", "0", ".", "6", "3">>,
      <<"3", ".", "1", ".", "0">>,
      <<"2", "6", ".", "2", "0", ".", "1", ".", "7">> }

\* The texts of at most MaxFrags fragments.
Strings == {Concat(fs) : fs \in [1..MaxFrags -> Fragments \cup {<<>>}]}

Inputs ==
    {StrVal(s) : s \in Strings}
        \cup {IntVal(n) : n \in (-MaxInt)..MaxInt}
        \cup {FloatVal(t) : t \in (-MaxTenths)..MaxTenths}

----------------------------------------------------------------------------
(* The classifier alone: one input, one call of GLParser.parse. *)

InitParse ==
    /\ input \in Inputs
    /\ result = Pending
    /\ entries = <<>>
    /\ gen = "none"
    /\ idx = 0
    /\ calls = <<>>
    /\ pulled = <<>>
    /\ runtime = None
    /\ rt_result = Pending

Parse ==
    /\ result = Pending
    /\ result' = parse(input)
    /\ UNCHANGED <<input, entries, gen, idx, calls, pulled, runtime, rt_result>>

NextParse == Parse

SpecParse == InitParse /\ [][NextParse]_vars

----------------------------------------------------------------------------
(* parse_gl_versions: a generator function.  Calling it creates the        *)
(* generator and runs none of its body; each next() resumes the body up to *)
(* its next yield, to the exception that leaves it, or to its end.  A      *)
(* generator that an exception has left, or that has returned, is closed,  *)
(* and next() on a closed generator raises StopIteration.                  *)

Yield(v) == [kind |-> "yield", val |-> v]

\* The indices, from the first on, that a list built at the call would have
\* classified: up to the first entry parse rejects.
RECURSIVE ClassifiedEagerly(_, _)
ClassifiedEagerly(es, i) ==
    IF i > Len(es) THEN <<>>
    ELSE IF parse(es[i]).kind = "raise" THEN <<i>>
    ELSE <<i>> \o ClassifiedEagerly(es, i + 1)

\* create as a function that classifies its entries when it is called.
create_eager(es) == [gen |-> "created", idx |-> 0, called |-> ClassifiedEagerly(es, 1)]

\* parse_gl_versions(gl_version_strings): the state of the new generator.
create(es) == [gen |-> "created", idx |-> 0, called |-> <<>>]

\* resume taking the entries from the end.
resume_from_end(g, i, es) ==
    IF g = "closed" \/ i = Len(es)
    THEN [gen |-> "closed", idx |-> i, called |-> <<>>, out |-> StopIteration]
    ELSE LET r == parse(es[Len(es) - i])
         IN  IF r.kind = "raise"
             THEN [gen |-> "closed", idx |-> i + 1, called |-> <<i + 1>>, out |-> r]
             ELSE [gen |-> "suspended", idx |-> i + 1, called |-> <<i + 1>>,
                   out |-> Yield(r.val)]

\* resume of a sequence that an exception does not close.
resume_after_raise(g, i, es) ==
    IF g = "closed" \/ i = Len(es)
    THEN [gen |-> "closed", idx |-> i, called |-> <<>>, out |-> StopIteration]
    ELSE LET r == parse(es[i + 1])
         IN  IF r.kind = "raise"
             THEN [gen |-> "suspended", idx |-> i + 1, called |-> <<i + 1>>, out |-> r]
             ELSE [gen |-> "suspended", idx |-> i + 1, called |-> <<i + 1>>,
                   out |-> Yield(r.val)]

\* next() on the generator in state g, enumerate() having handed out i of es:
\* the generator's new state, the indices parser.parse was called on, and
\* what the caller gets.
resume(g, i, es) ==
    IF g = "closed" \/ i = Len(es)
    THEN [gen |-> "closed", idx |-> i, called |-> <<>>, out |-> StopIteration]
    ELSE LET r == parse(es[i + 1])
         IN  IF r.kind = "raise"
             THEN [gen |-> "closed", idx |-> i + 1, called |-> <<i + 1>>, out |-> r]
             ELSE [gen |-> "suspended", idx |-> i + 1, called |-> <<i + 1>>,
                   out |-> Yield(r.val)]

MaxBatch == 3
MaxPulls == 5

\* Raw values of each kind: an int, a float, strings of the mesa and generic
\* families, a keyword without any version, and a string parse rejects.
BatchPool ==
    { IntVal(3), FloatVal(45),
      StrVal(KwMesa \o <<" ", "4", ".", "6", ".", "0">>),
      StrVal(<<"4", "7", "0", ".", "1">>),
      StrVal(KwBuild),
      StrVal(<<"I", "n", "t", "e", "l">>) }

RECURSIVE Batches(_)
Batches(n) ==
    IF n = 0 THEN {<<>>}
    ELSE LET shorter == Batches(n - 1)
         IN  shorter \cup {Append(b, v) : b \in {x \in shorter : Len(x) = n - 1},
                                          v \in BatchPool}

InitBatch ==
    /\ input = IntVal(0)
    /\ result = Pending
    /\ entries \in Batches(MaxBatch)
    /\ gen = "none"
    /\ idx = 0
    /\ calls = <<>>
    /\ pulled = <<>>
    /\ runtime = None
    /\ rt_result = Pending

\* The caller calls parse_gl_versions(entries).
Create ==
    /\ gen = "none"
    /\ LET c == create(entries)
       IN  /\ gen' = c.gen
           /\ idx' = c.idx
           /\ calls' = calls \o c.called
    /\ UNCHANGED <<input, result, entries, pulled, runtime, rt_result>>

\* The caller calls next() on the generator, catching what it raises.
Pull ==
    /\ gen # "none"
    /\ Len(pulled) < MaxPulls
    /\ LET r == resume(gen, idx, entries)
       IN  /\ gen' = r.gen
           /\ idx' = r.idx
           /\ calls' = calls \o r.called
           /\ pulled' = Append(pulled, r.out)
    /\ UNCHANGED <<input, result, entries, runtime, rt_result>>

NextBatch == Create \/ Pull

SpecBatch == InitBatch /\ [][NextBatch]_vars

----------------------------------------------------------------------------
(* parse_runtime *)

\* The characters str.split() splits on (the ASCII ones).
Whitespace == {" ", "\t", "\n", "\r"}

\* str.split(): the maximal runs of non-whitespace characters, in order.
RECURSIVE SplitFrom(_, _, _)
SplitFrom(s, i, cur) ==
    IF i > Len(s) THEN (IF cur = <<>> THEN <<>> ELSE <<cur>>)
    ELSE IF s[i] \in Whitespace
         THEN (IF cur = <<>> THEN <<>> ELSE <<cur>>) \o SplitFrom(s, i + 1, <<>>)
         ELSE SplitFrom(s, i + 1, Append(cur, s[i]))

split(s) == SplitFrom(s, 1, <<>>)

IndexOutOfRange == <<"l", "i", "s", "t", " ", "i", "n", "d", "e", "x", " ",
                     "o", "u", "t", " ", "o", "f", " ", "r", "a", "n", "g", "e">>

InvalidRuntimeValue == <<"I", "n", "v", "a", "l", "i", "d", " ", "r", "u", "n", "t", "i",
                         "m", "e", " ", "v", "a", "l", "u", "e", ":", " ">>

KwMono == <<"M", "o", "n", "o">>
KwDotNet == <<".", "N", "E", "T">>

\* list[k] of a Python list, k counted from 0.
index(l, k) == IF k < Len(l) THEN Return(l[k + 1]) ELSE Raise("IndexError", IndexOutOfRange)

parse_mono_runtime(value) ==
    LET version == index(split(value), 1)
    IN  IF version.kind = "raise" THEN version
        ELSE Return(Some(Runtime("mono", version.val)))

parse_dotnet_runtime(value) ==
    LET version == index(split(value), 2)
    IN  IF version.kind = "raise" THEN version
        ELSE Return(Some(Runtime(".net", version.val)))

\* parse_runtime of an Optional[str].
parse_runtime(rt) ==
    IF ~rt.some THEN Return(None)
    ELSE IF Contains(KwMono, rt.val) THEN parse_mono_runtime(rt.val)
    ELSE IF Contains(KwDotNet, rt.val) THEN parse_dotnet_runtime(rt.val)
    ELSE Raise("ValueError", InvalidRuntimeValue \o rt.val)

MaxRtFrags == 4

RtFragments ==
    { KwMono, KwDotNet, <<" ">>, <<"\t">>, <<"6", ".", "1", "2">>, <<"J", "I", "T">> }

RECURSIVE RtFragSeqs(_)
RtFragSeqs(n) ==
    IF n = 0 THEN {<<>>}
    ELSE LET shorter == RtFragSeqs(n - 1)
         IN  shorter \cup {Append(fs, f) : fs \in {x \in shorter : Len(x) = n - 1},
                                           f \in RtFragments}

Runtimes == {None} \cup {Some(Concat(fs)) : fs \in RtFragSeqs(MaxRtFrags)}

InitRuntime ==
    /\ input = IntVal(0)
    /\ result = Pending
    /\ entries = <<>>
    /\ gen = "none"
    /\ idx = 0
    /\ calls = <<>>
    /\ pulled = <<>>
    /\ runtime \in Runtimes
    /\ rt_result = Pending

ParseRuntime ==
    /\ rt_result = Pending
    /\ rt_result' = parse_runtime(runtime)
    /\ UNCHANGED <<input, result, entries, gen, idx, calls, pulled, runtime>>

NextRuntime == ParseRuntime

SpecRuntime == InitRuntime /\ [][NextRuntime]_vars

----------------------------------------------------------------------------
(* What the properties speak of, stated on the text alone.                 *)

\* s[i..j] is k runs of digits joined by single dots.
IsDotted(s, i, j, k) ==
    /\ i <= j
    /\ IsDigit(s[i])
    /\ IsDigit(s[j])
    /\ \A p \in i..j : IsDigit(s[p]) \/ s[p] = "."
    /\ \A p \in i..(j - 1) : ~(s[p] = "." /\ s[p + 1] = ".")
    /\ Cardinality({p \in i..j : s[p] = "."}) = k - 1

\* s[i..j] is MAJOR.MINOR or MAJOR.MINOR.PATCH.
IsVersion(s, i, j) == IsDotted(s, i, j, 2) \/ IsDotted(s, i, j, 3)

\* s[i..j] is pre followed by k dotted components.
IsTagged(pre, k, s, i, j) ==
    /\ i + Len(pre) <= Len(s)
    /\ SubSeq(s, i, i + Len(pre) - 1) = pre
    /\ IsDotted(s, i + Len(pre), j, k)

\* s[i..j] is "NVIDIA ", exactly three digits, a dot and a run of digits.
IsNvidia(s, i, j) ==
    /\ IsTagged(KwNvidia \o <<" ">>, 2, s, i, j)
    /\ i + Len(KwNvidia) + 4 < j
    /\ s[i + Len(KwNvidia) + 4] = "."

\* s[i..j] is an occurrence of family fam's driver-version pattern.
IsFamilyPattern(fam, s, i, j) ==
    CASE fam = "compat" -> IsDotted(s, i, j, 4)
      [] fam = "mesa" -> IsDotted(s, i, j, 3)
      [] fam = "intel" -> IsTagged(KwIntel \o <<"-">>, 3, s, i, j)
      [] fam = "nvidia" -> IsNvidia(s, i, j)
      [] fam = "build" -> IsTagged(KwBuild \o <<" ">>, 4, s, i, j)

\* The length of the literal text before the numeric part of fam's pattern.
TagLen(fam) ==
    CASE fam = "compat" -> 0
      [] fam = "mesa" -> 0
      [] fam = "intel" -> Len(KwIntel) + 1
      [] fam = "nvidia" -> Len(KwNvidia) + 1
      [] fam = "build" -> Len(KwBuild) + 1

Min(S) == CHOOSE x \in S : \A y \in S : x <= y
Max(S) == CHOOSE x \in S : \A y \in S : y <= x

\* Where occurrences of the version pattern start in s.
VersionStarts(s) == {i \in 1..Len(s) : IsDigit(s[i]) /\ \E j \in i..Len(s) : IsVersion(s, i, j)}

HasVersion(s) == VersionStarts(s) # {}

\* The leftmost occurrence of the version pattern in s, at its longest.
LeftmostVersion(s) ==
    LET i == Min(VersionStarts(s))
        j == Max({e \in i..Len(s) : IsVersion(s, i, e)})
    IN  SubSeq(s, i, j)

FamilyStarts(fam, s) ==
    {i \in 1..Len(s) : \E j \in i..Len(s) : IsFamilyPattern(fam, s, i, j)}

\* The span of the numeric part of the leftmost occurrence of fam's pattern.
LeftmostFamilySpan(fam, s) ==
    LET i == Min(FamilyStarts(fam, s))
        j == Max({e \in i..Len(s) : IsFamilyPattern(fam, s, i, e)})
    IN  <<i + TagLen(fam), j>>

LeftmostFamilyVersion(fam, s) ==
    LET sp == LeftmostFamilySpan(fam, s) IN SubSeq(s, sp[1], sp[2])

\* The family keywords in the order of the dispatch.
Keywords ==
    << [kw |-> KwCompat, fam |-> "compat"], [kw |-> KwMesa, fam |-> "mesa"],
       [kw |-> KwNvidia, fam |-> "nvidia"], [kw |-> KwIntel, fam |-> "intel"],
       [kw |-> KwBuild, fam |-> "build"] >>

KeywordsIn(s) == {k \in 1..Len(Keywords) : Contains(Keywords[k].kw, s)}

\* The family of the earliest keyword of the order that s contains.
EarliestFamily(s) ==
    IF KeywordsIn(s) = {} THEN "generic" ELSE Keywords[Min(KeywordsIn(s))].fam

IsPrefix(a, b) == Len(a) <= Len(b) /\ SubSeq(b, 1, Len(a)) = a

\* int(cs) of a canonical decimal numeral: no sign unless negative, no
\* leading zero; -1000000 for any other text.
RECURSIVE NatValue(_)
NatValue(cs) == IF cs = <<>> THEN 0
                ELSE 10 * NatValue(SubSeq(cs, 1, Len(cs) - 1))
                        + (CHOOSE d \in 0..9 : DigitChar(d) = cs[Len(cs)])

IsNatNumeral(cs) ==
    /\ cs # <<>>
    /\ \A p \in 1..Len(cs) : IsDigit(cs[p])
    /\ (Len(cs) > 1 => cs[1] # "0")

IntValue(cs) ==
    IF IsNatNumeral(cs) THEN NatValue(cs)
    ELSE IF cs # <<>> /\ cs[1] = "-" /\ IsNatNumeral(Tail(cs)) /\ Tail(cs) # <<"0">>
         THEN -NatValue(Tail(cs))
         ELSE -1000000

Returned == result.kind = "return"
OfString == input.kind = "str"

----------------------------------------------------------------------------
(* The classifier's properties (SpecParse). *)

\* C1: for a string input the driver label of the returned Descriptor is the
\* family of the earliest keyword, in the order compat, mesa, nvidia, intel,
\* build, that the string contains, and generic when it contains none,
\* whatever other keywords or version patterns the string holds.
C1_FirstMatchWins ==
    (OfString /\ Returned) => result.val.driver = Some(EarliestFamily(input.s))

\* A string with two keywords and a version pattern has been parsed.
C1_Witness ==
    /\ OfString /\ Returned
    /\ Contains(KwNvidia, input.s) /\ Contains(KwIntel, input.s)
    /\ Min(KeywordsIn(input.s)) = 3
    /\ HasVersion(input.s)
    /\ result.val.driver = Some("nvidia")

\* C2: for a string input parse raises the unrecognized-format error exactly
\* when the string has none of the five keywords and no version pattern; the
\* error's message ends with the original string; in every other case parse
\* returns a Descriptor.
C2_FailsIffUnrecognized ==
    (OfString /\ result # Pending) =>
        LET unrecognized == KeywordsIn(input.s) = {} /\ ~HasVersion(input.s)
        IN  /\ result.kind \in {"return", "raise"}
            /\ (result.kind = "raise") <=> unrecognized
            /\ result.kind = "raise" =>
                  /\ result.exc = "NotImplementedError"
                  /\ Len(result.msg) >= Len(input.s)
                  /\ SubSeq(result.msg, Len(result.msg) - Len(input.s) + 1,
                            Len(result.msg)) = input.s
            /\ result.kind = "return" =>
                  DOMAIN result.val = {"version", "driver", "driver_version"}

\* A string of several characters, digits among them, has been rejected.
C2_Witness ==
    /\ OfString
    /\ result.kind = "raise"
    /\ Len(input.s) > 5
    /\ \E p \in 1..Len(input.s) : IsDigit(input.s[p])

\* C3: in a returned Descriptor driver_version is set only if driver is;
\* driver is absent exactly when the input was an int or a float; and for an
\* int n the Descriptor is (the decimal numeral of n followed by ".0.0",
\* absent, absent).
C3_DriverAbsentIffNumeric ==
    Returned =>
        /\ result.val.driver_version.some => result.val.driver.some
        /\ ~result.val.driver.some <=> input.kind \in {"int", "float"}
        /\ input.kind = "int" =>
              LET v == result.val.version
              IN  /\ result.val.driver = None
                  /\ result.val.driver_version = None
                  /\ v.some
                  /\ Len(v.val) > 4
                  /\ SubSeq(v.val, Len(v.val) - 3, Len(v.val)) = <<".", "0", ".", "0">>
                  /\ IntValue(SubSeq(v.val, 1, Len(v.val) - 4)) = input.n

\* A negative int of two digits has been parsed.
C3_Witness ==
    /\ Returned
    /\ input.kind = "int"
    /\ input.n < -9
    /\ result.val.driver = None

\* C8: for a string with a family keyword parse returns a Descriptor whose
\* driver is that family; its driver_version is absent when the family's
\* driver-version pattern does not occur in the string, and otherwise is the
\* numeric part of the pattern's leftmost occurrence.
C8_DriverVersion ==
    (OfString /\ result # Pending /\ KeywordsIn(input.s) # {}) =>
        LET fam == EarliestFamily(input.s)
        IN  /\ Returned
            /\ result.val.driver = Some(fam)
            /\ result.val.driver_version =
                  IF FamilyStarts(fam, input.s) = {} THEN None
                  ELSE Some(LeftmostFamilyVersion(fam, input.s))

\* A string with "NVIDIA " and a version after it, but no occurrence of the
\* nvidia pattern, has been parsed to a Descriptor without a driver_version.
C8_Witness ==
    /\ OfString /\ Returned
    /\ result.val.driver = Some("nvidia")
    /\ Contains(KwNvidia \o <<" ", "3", ".", "1">>, input.s)
    /\ HasVersion(input.s)
    /\ result.val.driver_version = None

\* C9: for a string input and whatever family was selected, the version of
\* the returned Descriptor is the leftmost MAJOR.MINOR[.PATCH] occurrence in
\* the whole string, with its PATCH when there is one, and is absent exactly
\* when the string has no such occurrence.
C9_VersionSharedRule ==
    (OfString /\ Returned) =>
        result.val.version =
            IF HasVersion(input.s) THEN Some(LeftmostVersion(input.s)) ELSE None

\* A string of a keyword family has been parsed whose leftmost version stands
\* after the keyword and has a PATCH component.
C9_Witness ==
    /\ OfString /\ Returned
    /\ result.val.driver = Some("mesa")
    /\ HasVersion(input.s)
    /\ Min(VersionStarts(input.s)) > Len(KwMesa)
    /\ result.val.version = Some(<<"3", ".", "1", ".", "0">>)

\* C10: for a string input, a returned Descriptor with a driver_version has a
\* version; and for a mesa or compat string in which every version occurrence
\* starts inside the driver version's text, version is a prefix of
\* driver_version.
C10_DriverVersionImpliesVersion ==
    (OfString /\ Returned /\ result.val.driver_version.some) =>
        /\ result.val.version.some
        /\ \A fam \in {"mesa", "compat"} :
              (result.val.driver = Some(fam) /\ FamilyStarts(fam, input.s) # {}) =>
                  LET sp == LeftmostFamilySpan(fam, input.s)
                  IN  VersionStarts(input.s) \subseteq sp[1]..sp[2] =>
                          IsPrefix(result.val.version.val, result.val.driver_version.val)

\* A compat string whose only version is its four-component driver version
\* has been parsed: version is the first three components of it.
C10_Witness ==
    /\ OfString /\ Returned
    /\ result.val.driver = Some("compat")
    /\ result.val.driver_version = Some(<<"2", "6", ".", "2", "0", ".", "1", ".", "7">>)
    /\ result.val.version = Some(<<"2", "6", ".", "2", "0", ".", "1">>)
    /\ LET sp == LeftmostFamilySpan("compat", input.s)
       IN  VersionStarts(input.s) \subseteq sp[1]..sp[2]

----------------------------------------------------------------------------
(* The batch driver's properties (SpecBatch). *)

Classifiable(k) == parse(entries[k]).kind = "return"

\* What classifying entry k gives the caller: a Descriptor or the error.
Classified(k) ==
    IF Classifiable(k) THEN Yield(parse(entries[k]).val) ELSE parse(entries[k])

\* Entry i is the first that parse rejects.
FirstFailure(i) ==
    /\ i \in 1..Len(entries)
    /\ ~Classifiable(i)
    /\ \A k \in 1..(i - 1) : Classifiable(k)

\* C4: when no entry fails, the k-th value pulled is the Descriptor of the
\* k-th entry, and after as many values as there are entries the sequence
\* has ended.
C4_OnePerInputInOrder ==
    (\A k \in 1..Len(entries) : Classifiable(k)) =>
        \A k \in 1..Len(pulled) :
            pulled[k] = IF k <= Len(entries)
                        THEN Yield(parse(entries[k]).val)
                        ELSE StopIteration

\* Three entries of different kinds have been pulled, and the end reached.
C4_Witness ==
    /\ Len(entries) = 3
    /\ \A k \in 1..3 : Classifiable(k)
    /\ entries[1].kind = "str"
    /\ entries[2].kind = "int"
    /\ entries[3].kind = "str"
    /\ entries[1] # entries[3]
    /\ Len(pulled) = 4
    /\ pulled[3].kind = "yield"
    /\ pulled[4] = StopIteration

\* C5: creating the sequence classifies nothing; the k-th pull classifies the
\* k-th entry and no other; and when entry i is the first unclassifiable one,
\* the pulls before the i-th deliver the Descriptors of the entries before i
\* and the i-th pull raises the error.
C5_Lazy ==
    /\ gen \in {"none", "created"} => (calls = <<>> /\ pulled = <<>>)
    /\ Len(calls) <= Len(pulled)
    /\ \A k \in 1..Len(calls) : calls[k] = k
    /\ \A i \in 1..Len(entries) :
          FirstFailure(i) =>
              /\ \A k \in 1..Len(pulled) :
                    /\ k < i => pulled[k] = Yield(parse(entries[k]).val)
                    /\ k = i => pulled[k] = parse(entries[i])
              /\ Len(pulled) < i => Len(calls) = Len(pulled)

\* The third of three entries is unclassifiable; two Descriptors have been
\* delivered and the third pull has raised.
C5_Witness ==
    /\ Len(entries) = 3
    /\ FirstFailure(3)
    /\ Len(pulled) = 3
    /\ pulled[1].kind = "yield"
    /\ pulled[2].kind = "yield"
    /\ pulled[3].kind = "raise"
    /\ calls = <<1, 2, 3>>

\* C6 as stated: a failure ends production for its element only, so the k-th
\* pull delivers the k-th entry's Descriptor or error whatever failed before.
C6_Original ==
    \A k \in 1..Len(pulled) : k <= Len(entries) => pulled[k] = Classified(k)

\* C6 as amended: a failure on the i-th entry ends the whole sequence: it is
\* raised at the i-th pull, every later pull of the same sequence reports the
\* end of the sequence, and the entries after i are never classified.
C6_FailureEndsSequence ==
    \A i \in 1..Len(pulled) :
        pulled[i].kind = "raise" =>
            /\ FirstFailure(i)
            /\ pulled[i] = parse(entries[i])
            /\ \A k \in (i + 1)..Len(pulled) : pulled[k] = StopIteration
            /\ calls = [k \in 1..i |-> k]
            /\ gen = "closed"

\* The first entry has failed, the caller has pulled again, and the second
\* entry, which is classifiable, has not been delivered.
C6_Witness ==
    /\ Len(entries) >= 2
    /\ ~Classifiable(1)
    /\ Classifiable(2)
    /\ Len(pulled) >= 2
    /\ pulled[1].kind = "raise"
    /\ pulled[2] = StopIteration

----------------------------------------------------------------------------
(* The runtime recognizer's property (SpecRuntime). *)

EndsWith(a, suffix) ==
    Len(suffix) <= Len(a) /\ SubSeq(a, Len(a) - Len(suffix) + 1, Len(a)) = suffix

\* C7: parse_runtime returns None for None; for a string it fails exactly
\* when the string contains neither "Mono" nor ".NET", and then with the
\* invalid-runtime error naming the string; a string with "Mono" yields
\* Runtime(mono, 2nd token), and one with ".NET" but not "Mono" yields
\* Runtime(.net, 3rd token).
C7_RuntimeContract ==
    rt_result # Pending =>
        /\ ~runtime.some => rt_result = Return(None)
        /\ runtime.some =>
              LET s == runtime.val
                  tokens == split(s)
                  mono == Contains(KwMono, s)
                  dotnet == Contains(KwDotNet, s)
              IN  /\ (rt_result.kind = "raise") <=> (~mono /\ ~dotnet)
                  /\ rt_result.kind = "raise" =>
                        /\ rt_result.exc = "ValueError"
                        /\ EndsWith(rt_result.msg, s)
                  /\ mono =>
                        /\ Len(tokens) >= 2
                        /\ rt_result = Return(Some(Runtime("mono", tokens[2])))
                  /\ (dotnet /\ ~mono) =>
                        /\ Len(tokens) >= 3
                        /\ rt_result = Return(Some(Runtime(".net", tokens[3])))

=============================================================================
